---------------------------- MODULE Spec2Model ----------------------------
(* A model of api/index.py: the in-memory game registry (game_states,      *)
(* game_locks), the game-state dicts it holds, and the Flask request        *)
(* handlers, run by concurrent worker threads.  A handler is a sequence of  *)
(* steps; a step is atomic, and threads interleave between steps.  The     *)
(* body of a `with game_locks[game_id]:` block is two steps, the reads that *)
(* decide (which also acquires the lock) and the writes (which also        *)
(* releases it), so that what happens while a lock is held is a state of   *)
(* the model.                                                              *)
EXTENDS Integers, Sequences, FiniteSets, TLC

----------------------------------------------------------------------------
(* Bounds of the model *)

\* worker threads serving requests concurrently
NThreads == 2
\* requests issued in a behaviour of Spec
MaxReqs == 2
\* the clock stops at this time (seconds)
MaxTime == 180
\* players of a finished game whose results are ranked
MaxPlayers == 3

----------------------------------------------------------------------------
(* Program constants *)

GAME_ROUNDS == 5
STARTING_CASH == 10000
TOTAL_FRAMES == 35
\* get_state updates prices when time_remaining is below this
MARKET_ACTIVE_BELOW == 30
\* update_prices keeps at most this many prices in an asset's history
HISTORY_MAX == 50
\* use_powerup: future-glimpse lowers riskScore by this, market-freeze adds this cash
GLIMPSE_RISK == 20
FREEZE_CASH == 1000

Threads == 1..NThreads
GameIds == {"default"}

\* None for a timestamp; like None, 0 is falsy in `if game_state["roundStartTime"]`
NoTime == 0
\* None for a player id
NoId == <<-1, -1>>

AssetIds == {"AAPL", "BTC", "GOVT", "SPY"}
\* Prices are in whole dollars, baseVolatility in tenths.
INITIAL_ASSETS ==
  [a \in AssetIds |->
     CASE a = "AAPL" -> [type |-> "STOCK",  baseVolatility |-> 8,  currentPrice |-> 150,   history |-> <<150>>]
       [] a = "BTC"  -> [type |-> "CRYPTO", baseVolatility |-> 25, currentPrice |-> 45000, history |-> <<45000>>]
       [] a = "GOVT" -> [type |-> "BOND",   baseVolatility |-> 3,  currentPrice |-> 100,   history |-> <<100>>]
       [] a = "SPY"  -> [type |-> "ETF",    baseVolatility |-> 6,  currentPrice |-> 400,   history |-> <<400>>]]

SCENARIOS == {"BULL_RUN", "BEAR_CRASH", "SIDEWAYS"}
PowerUpIds == {"future-glimpse", "market-freeze"}

Max(a, b) == IF a >= b THEN a ELSE b
Min(a, b) == IF a <= b THEN a ELSE b

----------------------------------------------------------------------------
VARIABLES
  game_states,   \* the registry: game id -> index into sessions (0: no entry)
  game_locks,    \* the registry: game id -> index into lock_owner (0: no entry)
  sessions,      \* the game-state dicts ever created; the index is the object's identity
  lock_owner,    \* the threading.Lock objects ever registered: the holding thread, or 0
  now,           \* time.time(), in whole seconds
  pc,            \* each thread's position in its handler
  req,           \* each thread's current (or last) request
  gs,            \* each thread's local game_state: index into sessions (0: unset)
  lk,            \* the lock each thread holds: index into lock_owner, -1 for the
                 \* private threading.Lock() of reset_game, 0 for none
  loc,           \* each thread's other locals
  res,           \* each thread's last response
  nreq,          \* requests issued so far
  todo           \* the requests each thread's clients will send, in order (a scenario)

vars == <<game_states, game_locks, sessions, lock_owner, now, pc, req, gs, lk, loc, res, nreq, todo>>

\* Locals of a handler.  tr: time_remaining; round: the currentRound seen when
\* time_remaining was computed (kept for the statements about rounds, the code
\* does not keep it); p: index of the player found (0: None); h: index of the
\* holding found (0: None); q: that holding's quantity when found; cost: the cost
\* of a buy; flag: the outcome of the handler's test.
NoLocals == [tr |-> -1, round |-> -1, p |-> 0, h |-> 0, q |-> 0, cost |-> 0, flag |-> FALSE]
NoRequest == [op |-> "none", gameId |-> "default", name |-> "", playerId |-> NoId,
              assetId |-> "", amount |-> 0, arg |-> ""]
NoResponse == [kind |-> "none", playerId |-> NoId, results |-> <<>>]
Response(k) == [kind |-> k, playerId |-> NoId, results |-> <<>>]

----------------------------------------------------------------------------
(* Pure functions *)

create_new_game(time) ==
  [players |-> <<>>, assets |-> INITIAL_ASSETS, currentRound |-> 0,
   maxRounds |-> GAME_ROUNDS, activeEvent |-> "None", phase |-> "PRE_MATCH",
   timeRemaining |-> 0, activeScenario |-> "None", sentiment |-> 0,
   roundStartTime |-> NoTime, lastUpdate |-> time]

create_player(player_id, name) ==
  [id |-> player_id, name |-> name, cash |-> STARTING_CASH, holdings |-> <<>>,
   riskScore |-> 0, powerUps |-> [u \in PowerUpIds |-> 1],
   totalValue |-> STARTING_CASH, transactionLog |-> <<>>,
   avatarId |-> "None", strategyId |-> "None"]

\* next((x for x in seq if test(x)), None): the index of the first match, 0 for None
RECURSIVE FirstFrom(_, _, _)
FirstFrom(seq, Test(_), i) ==
  IF i > Len(seq) THEN 0
  ELSE IF Test(seq[i]) THEN i ELSE FirstFrom(seq, Test, i + 1)

PlayerByName(players, name) ==
  LET T(p) == p.name = name IN FirstFrom(players, T, 1)
PlayerById(players, id) ==
  LET T(p) == p.id = id IN FirstFrom(players, T, 1)
HoldingOf(holdings, aid) ==
  LET T(h) == h.assetId = aid IN FirstFrom(holdings, T, 1)

\* Python's round() of n/d for d > 0: to the nearest integer, halves to even
RoundDiv(n, d) ==
  LET q == n \div d
      r == n % d
  IN IF 2 * r < d THEN q
     ELSE IF 2 * r > d THEN q + 1
     ELSE IF q % 2 = 0 THEN q ELSE q + 1

RECURSIVE SumOver(_, _, _)
SumOver(seq, F(_), i) ==
  IF i > Len(seq) THEN 0 ELSE F(seq[i]) + SumOver(seq, F, i + 1)

\* holdings_value of update_prices, total_portfolio_value of calculate_risk
HoldingsValue(player, assets) ==
  LET V(h) == IF h.assetId \in AssetIds
              THEN h.quantity * assets[h.assetId].currentPrice ELSE 0
  IN SumOver(player.holdings, V, 1)

\* total_risk of calculate_risk: value * baseVolatility * 500, baseVolatility in tenths
TotalRisk(player, assets) ==
  LET R(h) == IF h.assetId \in AssetIds
              THEN h.quantity * assets[h.assetId].currentPrice
                   * assets[h.assetId].baseVolatility * 50
              ELSE 0
  IN SumOver(player.holdings, R, 1)

calculate_risk(player, assets) ==
  LET total == HoldingsValue(player, assets)
      capped == Min(100, RoundDiv(TotalRisk(player, assets) * 100, total))
  IN IF total > 0
     THEN IF player.strategyId = "SAFETY_FIRST" THEN Max(0, capped - 10) ELSE capped
     ELSE 0

\* One asset's update: random.random() - 0.5 is drawn at an end of its range or in
\* the middle (d in -1, 0, 1), so change = d * 0.0075 * baseVolatility; there is
\* no active event and the sentiment is 0.  The new price is cut to whole dollars.
NewPrice(asset, d) ==
  asset.currentPrice + d * ((asset.currentPrice * asset.baseVolatility * 75) \div 100000)

UpdateAsset(asset, d) ==
  LET price == NewPrice(asset, d)
      hist == Append(asset.history, price)
  IN [asset EXCEPT !.currentPrice = price,
                   !.history = IF Len(hist) > HISTORY_MAX THEN Tail(hist) ELSE hist]

UpdatePlayer(player, assets) ==
  [player EXCEPT !.totalValue = player.cash + HoldingsValue(player, assets),
                 !.riskScore = calculate_risk(player, assets)]

update_prices(game_state, draw) ==
  LET assets == [a \in AssetIds |-> UpdateAsset(game_state.assets[a], draw[a])]
  IN [game_state EXCEPT
        !.assets = assets,
        !.players = [i \in 1..Len(game_state.players) |->
                       UpdatePlayer(game_state.players[i], assets)]]

\* The draws of one update_prices call: no movement, or every asset at the same
\* end of its range.
Still == [a \in AssetIds |-> 0]
Draws == {[a \in AssetIds |-> d] : d \in {-1, 0, 1}}

----------------------------------------------------------------------------
(* The state after the module is loaded *)

Fresh ==
  /\ game_states = [g \in GameIds |-> 0]
  /\ game_locks = [g \in GameIds |-> 0]
  /\ sessions = <<>>
  /\ lock_owner = <<>>
  /\ now = 1
  /\ pc = [t \in Threads |-> "idle"]
  /\ req = [t \in Threads |-> NoRequest]
  /\ gs = [t \in Threads |-> 0]
  /\ lk = [t \in Threads |-> 0]
  /\ loc = [t \in Threads |-> NoLocals]
  /\ res = [t \in Threads |-> NoResponse]
  /\ nreq = 0

----------------------------------------------------------------------------
(* Requests *)

Request(op) == [NoRequest EXCEPT !.op = op]

\* A handler is entered with request r.  join_game returns at once when the name
\* is empty; reset_game does not call get_game_state.
Enter(t, r) ==
  /\ req' = [req EXCEPT ![t] = r]
  /\ gs' = [gs EXCEPT ![t] = 0]
  /\ loc' = [loc EXCEPT ![t] = NoLocals]
  /\ IF r.op = "join" /\ r.name = ""
     THEN /\ pc' = pc
          /\ res' = [res EXCEPT ![t] = Response("ValidationError")]
     ELSE /\ pc' = [pc EXCEPT ![t] = IF r.op = "reset" THEN "enter" ELSE "gg_check"]
          /\ res' = [res EXCEPT ![t] = NoResponse]
  /\ UNCHANGED <<game_states, game_locks, sessions, lock_owner, now, lk>>

\* An idle thread takes any request of the menu, while fewer than cap were issued.
Begin(t, menu, cap) ==
  /\ pc[t] = "idle"
  /\ nreq < cap
  /\ nreq' = nreq + 1
  /\ \E r \in menu : Enter(t, r)
  /\ UNCHANGED todo

\* An idle thread takes the next request of its scenario.
BeginNext(t) ==
  /\ pc[t] = "idle"
  /\ todo[t] # <<>>
  /\ todo' = [todo EXCEPT ![t] = Tail(todo[t])]
  /\ Enter(t, Head(todo[t]))
  /\ UNCHANGED nreq

\* A round's timer is running: the clock is read only to time a round, by get_state
RoundRunning ==
  \E i \in 1..Len(sessions) :
     /\ sessions[i].phase = "PLAYING"
     /\ sessions[i].roundStartTime # NoTime
     /\ now - sessions[i].roundStartTime < TOTAL_FRAMES

\* The clock advances while a round's timer is running.
Tick(d) ==
  /\ now + d <= MaxTime
  /\ RoundRunning
  /\ now' = now + d
  /\ UNCHANGED <<game_states, game_locks, sessions, lock_owner, pc, req, gs, lk, loc, res, nreq, todo>>

\* A handler returns: the thread is idle again and keeps its response.
Return(t, r) ==
  /\ pc' = [pc EXCEPT ![t] = "idle"]
  /\ res' = [res EXCEPT ![t] = r]

Goto(t, label) ==
  /\ pc' = [pc EXCEPT ![t] = label]
  /\ UNCHANGED res

----------------------------------------------------------------------------
(* get_game_state *)

\* `if game_id not in game_states:`
GetGameStateCheck(t) ==
  /\ pc[t] = "gg_check"
  /\ Goto(t, IF game_states[req[t].gameId] = 0 THEN "gg_state" ELSE "gg_ret")
  /\ UNCHANGED <<game_states, game_locks, sessions, lock_owner, now, req, gs, lk, loc, nreq, todo>>

\* `game_states[game_id] = create_new_game(game_id)`
GetGameStateCreate(t) ==
  /\ pc[t] = "gg_state"
  /\ sessions' = Append(sessions, create_new_game(now))
  /\ game_states' = [game_states EXCEPT ![req[t].gameId] = Len(sessions) + 1]
  /\ Goto(t, "gg_lock")
  /\ UNCHANGED <<game_locks, lock_owner, now, req, gs, lk, loc, nreq, todo>>

\* `game_locks[game_id] = threading.Lock()`
GetGameStateLock(t) ==
  /\ pc[t] = "gg_lock"
  /\ lock_owner' = Append(lock_owner, 0)
  /\ game_locks' = [game_locks EXCEPT ![req[t].gameId] = Len(lock_owner) + 1]
  /\ Goto(t, "gg_ret")
  /\ UNCHANGED <<game_states, sessions, now, req, gs, lk, loc, nreq, todo>>

AfterResolve(op) ==
  CASE op = "getState" -> "gs_read"
    [] op = "results" -> "results"
    [] OTHER -> "enter"

\* `return game_states[game_id]`, bound to the handler's game_state
GetGameStateReturn(t) ==
  /\ pc[t] = "gg_ret"
  /\ gs' = [gs EXCEPT ![t] = game_states[req[t].gameId]]
  /\ Goto(t, AfterResolve(req[t].op))
  /\ UNCHANGED <<game_states, game_locks, sessions, lock_owner, now, req, lk, loc, nreq, todo>>

----------------------------------------------------------------------------
(* Locks *)

\* `with game_locks[game_id]:` entered: the registered lock is free and is taken
Acquire(t) ==
  LET l == game_locks[req[t].gameId] IN
  /\ l # 0
  /\ lock_owner[l] = 0
  /\ lock_owner' = [lock_owner EXCEPT ![l] = t]
  /\ lk' = [lk EXCEPT ![t] = l]

\* the with block left
Release(t) ==
  /\ lock_owner' = IF lk[t] > 0 THEN [lock_owner EXCEPT ![lk[t]] = 0] ELSE lock_owner
  /\ lk' = [lk EXCEPT ![t] = 0]

\* the with block entered and left in one step (an early return): the lock is free
Pass(t) ==
  LET l == game_locks[req[t].gameId] IN
  /\ l # 0
  /\ lock_owner[l] = 0
  /\ UNCHANGED <<lock_owner, lk>>

\* `game_locks[game_id]` raises KeyError: the game id has no lock registered
LockKeyError(t) ==
  /\ pc[t] \in {"enter", "gs_enter"}
  /\ req[t].op # "reset"
  /\ game_locks[req[t].gameId] = 0
  /\ Return(t, Response("KeyError"))
  /\ UNCHANGED <<game_states, game_locks, sessions, lock_owner, now, req, gs, lk, loc, nreq, todo>>

SetLocal(t, l) == loc' = [loc EXCEPT ![t] = l]

\* the handler's game_state dict
Mine(t) == sessions[gs[t]]
Write(t, s) == sessions' = [sessions EXCEPT ![gs[t]] = s]

----------------------------------------------------------------------------
(* join_game *)

\* the lock taken, `existing_player = next(...)`
JoinEnter(t) ==
  /\ pc[t] = "enter" /\ req[t].op = "join"
  /\ Acquire(t)
  /\ SetLocal(t, [loc[t] EXCEPT !.p = PlayerByName(Mine(t).players, req[t].name)])
  /\ Goto(t, "commit")
  /\ UNCHANGED <<game_states, game_locks, sessions, now, req, gs, nreq, todo>>

JoinCommit(t) ==
  /\ pc[t] = "commit" /\ req[t].op = "join"
  /\ LET s == Mine(t)
         player_id == IF loc[t].p # 0 THEN s.players[loc[t].p].id
                      ELSE <<Len(s.players), now>>
         players == IF loc[t].p # 0 THEN s.players
                    ELSE Append(s.players, create_player(player_id, req[t].name))
     IN /\ Write(t, [s EXCEPT !.players = players, !.lastUpdate = now])
        /\ Return(t, [kind |-> "ok", playerId |-> player_id, results |-> <<>>])
  /\ Release(t)
  /\ UNCHANGED <<game_states, game_locks, now, req, gs, loc, nreq, todo>>

----------------------------------------------------------------------------
(* start_game *)

\* the lock taken, `if game_state["phase"] == "PRE_MATCH":`
StartEnter(t) ==
  /\ pc[t] = "enter" /\ req[t].op = "start"
  /\ Acquire(t)
  /\ SetLocal(t, [loc[t] EXCEPT !.flag = (Mine(t).phase = "PRE_MATCH")])
  /\ Goto(t, "commit")
  /\ UNCHANGED <<game_states, game_locks, sessions, now, req, gs, nreq, todo>>

StartGame(s, time, scenario) ==
  [s EXCEPT !.phase = "PLAYING", !.currentRound = 1, !.roundStartTime = time,
            !.timeRemaining = TOTAL_FRAMES, !.activeScenario = scenario,
            !.lastUpdate = time]

StartCommit(t, scenarios) ==
  /\ pc[t] = "commit" /\ req[t].op = "start"
  /\ \E scenario \in scenarios :
       Write(t, IF loc[t].flag THEN StartGame(Mine(t), now, scenario) ELSE Mine(t))
  /\ Release(t)
  /\ Return(t, Response("ok"))
  /\ UNCHANGED <<game_states, game_locks, now, req, gs, loc, nreq, todo>>

----------------------------------------------------------------------------
(* get_state *)

TimeRemaining(s, time) == Max(0, TOTAL_FRAMES - (time - s.roundStartTime))

\* `if game_state["phase"] == "PLAYING" and game_state["roundStartTime"]:` and the
\* write of timeRemaining, without the lock
GetStateRead(t) ==
  /\ pc[t] = "gs_read"
  /\ LET s == Mine(t)
         tr == TimeRemaining(s, now)
     IN IF s.phase = "PLAYING" /\ s.roundStartTime # NoTime
        THEN /\ Write(t, [s EXCEPT !.timeRemaining = tr])
             /\ SetLocal(t, [loc[t] EXCEPT !.tr = tr, !.round = s.currentRound])
             /\ Goto(t, "gs_prices")
        ELSE /\ Return(t, Response("ok"))
             /\ UNCHANGED <<sessions, loc>>
  /\ UNCHANGED <<game_states, game_locks, lock_owner, now, req, gs, lk, nreq, todo>>

\* `if time_remaining < 30: update_prices(game_state)`, without the lock, and
\* `if time_remaining <= 0:`
GetStatePrices(t, draws) ==
  /\ pc[t] = "gs_prices"
  /\ \E draw \in draws :
       Write(t, IF loc[t].tr < MARKET_ACTIVE_BELOW
                THEN update_prices(Mine(t), draw) ELSE Mine(t))
  /\ IF loc[t].tr <= 0 THEN Goto(t, "gs_enter") ELSE Return(t, Response("ok"))
  /\ UNCHANGED <<game_states, game_locks, lock_owner, now, req, gs, lk, loc, nreq, todo>>

\* the lock taken, `if game_state["currentRound"] < game_state["maxRounds"]:`
GetStateEnter(t) ==
  /\ pc[t] = "gs_enter"
  /\ Acquire(t)
  /\ SetLocal(t, [loc[t] EXCEPT !.flag = (Mine(t).currentRound < Mine(t).maxRounds)])
  /\ Goto(t, "gs_commit")
  /\ UNCHANGED <<game_states, game_locks, sessions, now, req, gs, nreq, todo>>

AdvanceRound(s, time) ==
  [s EXCEPT !.currentRound = s.currentRound + 1, !.roundStartTime = time,
            !.timeRemaining = TOTAL_FRAMES]

FinishGame(s) ==
  [s EXCEPT !.phase = "FINISHED", !.roundStartTime = NoTime]

GetStateCommit(t) ==
  /\ pc[t] = "gs_commit"
  /\ Write(t, IF loc[t].flag THEN AdvanceRound(Mine(t), now) ELSE FinishGame(Mine(t)))
  /\ Release(t)
  /\ Return(t, Response("ok"))
  /\ UNCHANGED <<game_states, game_locks, now, req, gs, loc, nreq, todo>>


----------------------------------------------------------------------------
(* buy_asset, sell_asset *)

\* a / b of two integers, cut to an integer (b # 0)
IntDiv(a, b) == IF b > 0 THEN a \div b ELSE (0 - a) \div (0 - b)

TransactionRecord(type, s, aid, amount, total) ==
  [round |-> s.currentRound, type |-> type, assetId |-> aid,
   assetType |-> s.assets[aid].type, amount |-> amount,
   price |-> s.assets[aid].currentPrice, totalValue |-> total,
   eventActive |-> "None", sentimentAtTime |-> s.sentiment]

\* `if not player or not asset or game_state["phase"] != "PLAYING":`
ValidTrade(s, r) ==
  /\ PlayerById(s.players, r.playerId) # 0
  /\ r.assetId \in AssetIds
  /\ s.phase = "PLAYING"

\* the cash test of a buy that forgets the cost
CanAffordAnything(player, cost) == player.cash >= 0

\* `if player["cash"] >= cost:`
CanAfford(player, cost) == player.cash >= cost

\* the lock taken, the player and the asset looked up, the request and the cash tested
BuyEnter(t) ==
  /\ pc[t] = "enter" /\ req[t].op = "buy"
  /\ LET s == Mine(t)
         p == PlayerById(s.players, req[t].playerId)
         valid == ValidTrade(s, req[t])
         cost == IF valid THEN req[t].amount * s.assets[req[t].assetId].currentPrice ELSE 0
     IN IF valid /\ CanAfford(s.players[p], cost)
        THEN /\ Acquire(t)
             /\ SetLocal(t, [loc[t] EXCEPT !.p = p, !.cost = cost])
             /\ Goto(t, "commit")
        ELSE /\ Pass(t)
             /\ Return(t, Response(IF valid THEN "InsufficientFunds" ELSE "InvalidRequest"))
             /\ UNCHANGED loc
  /\ UNCHANGED <<game_states, game_locks, sessions, now, req, gs, nreq, todo>>

\* `holding["avgBuyPrice"] = total_cost / holding["quantity"]` raises
\* ZeroDivisionError: the player has a holding and the new quantity is 0
BuyRaises(player, aid, amount) ==
  LET h == HoldingOf(player.holdings, aid)
  IN h # 0 /\ player.holdings[h].quantity + amount = 0

\* The player after the writes of a buy.  When the division raises, the cash and
\* the quantity are written by then, the record is not.
AfterBuy(s, player, aid, amount, cost) ==
  LET h == HoldingOf(player.holdings, aid)
      raises == BuyRaises(player, aid, amount)
      holdings ==
        IF h = 0
        THEN Append(player.holdings,
                    [assetId |-> aid, quantity |-> amount,
                     avgBuyPrice |-> s.assets[aid].currentPrice])
        ELSE [player.holdings EXCEPT ![h] =
                [@ EXCEPT !.quantity = @ + amount,
                          !.avgBuyPrice =
                            IF raises THEN @
                            ELSE IntDiv(player.holdings[h].quantity * @ + cost,
                                        player.holdings[h].quantity + amount)]]
      log == IF raises THEN player.transactionLog
             ELSE Append(player.transactionLog,
                         TransactionRecord("BUY", s, aid, amount, cost))
  IN [player EXCEPT !.cash = @ - cost, !.holdings = holdings, !.transactionLog = log]

\* the writes of a buy
BuyCommit(t) ==
  /\ pc[t] = "commit" /\ req[t].op = "buy"
  /\ LET s == Mine(t)
         player == s.players[loc[t].p]
         raises == BuyRaises(player, req[t].assetId, req[t].amount)
         bought == AfterBuy(s, player, req[t].assetId, req[t].amount, loc[t].cost)
     IN /\ Write(t, [s EXCEPT !.players[loc[t].p] = bought,
                              !.lastUpdate = IF raises THEN @ ELSE now])
        /\ Return(t, Response(IF raises THEN "ZeroDivisionError" ELSE "ok"))
  /\ Release(t)
  /\ UNCHANGED <<game_states, game_locks, now, req, gs, loc, nreq, todo>>

\* `if holding and holding["quantity"] >= amount:`
CanSell(player, aid, amount) ==
  LET h == HoldingOf(player.holdings, aid)
  IN h # 0 /\ player.holdings[h].quantity >= amount

\* the lock taken, the player, the asset and the holding looked up and tested
SellEnter(t) ==
  /\ pc[t] = "enter" /\ req[t].op = "sell"
  /\ LET s == Mine(t)
         p == PlayerById(s.players, req[t].playerId)
         valid == ValidTrade(s, req[t])
         h == IF valid THEN HoldingOf(s.players[p].holdings, req[t].assetId) ELSE 0
     IN IF valid /\ CanSell(s.players[p], req[t].assetId, req[t].amount)
        THEN /\ Acquire(t)
             /\ SetLocal(t, [loc[t] EXCEPT !.p = p, !.h = h,
                                           !.q = s.players[p].holdings[h].quantity])
             /\ Goto(t, "commit")
        ELSE /\ Pass(t)
             /\ Return(t, Response(IF valid THEN "InsufficientHoldings" ELSE "InvalidRequest"))
             /\ UNCHANGED loc
  /\ UNCHANGED <<game_states, game_locks, sessions, now, req, gs, nreq, todo>>

\* The player after the writes of a sell.  h is the place of the holding found on
\* entry and q its quantity then: `holding` is that dict, and when it is no longer
\* in the player's list the write to it is not seen through the list.
AfterSell(s, player, aid, amount, h, q) ==
  LET revenue == amount * s.assets[aid].currentPrice
      listed == /\ h <= Len(player.holdings)
                /\ player.holdings[h].assetId = aid
      left == (IF listed THEN player.holdings[h].quantity ELSE q) - amount
      written == IF listed
                 THEN [player.holdings EXCEPT ![h].quantity = left]
                 ELSE player.holdings
      Other(x) == x.assetId # aid
  IN [player EXCEPT
        !.cash = @ + revenue,
        !.holdings = IF left <= 0 THEN SelectSeq(written, Other) ELSE written,
        !.transactionLog =
          Append(@, TransactionRecord("SELL", s, aid, amount, revenue))]

\* the writes of a sell
SellCommit(t) ==
  /\ pc[t] = "commit" /\ req[t].op = "sell"
  /\ LET s == Mine(t)
         sold == AfterSell(s, s.players[loc[t].p], req[t].assetId, req[t].amount,
                           loc[t].h, loc[t].q)
     IN Write(t, [s EXCEPT !.players[loc[t].p] = sold, !.lastUpdate = now])
  /\ Release(t)
  /\ Return(t, Response("ok"))
  /\ UNCHANGED <<game_states, game_locks, now, req, gs, loc, nreq, todo>>

----------------------------------------------------------------------------
(* use_powerup, select_avatar, select_strategy *)

\* the lock taken, the player and the power-up looked up and tested
PowerUpEnter(t) ==
  /\ pc[t] = "enter" /\ req[t].op = "usePowerUp"
  /\ LET s == Mine(t)
         p == PlayerById(s.players, req[t].playerId)
         usable == /\ p # 0
                   /\ req[t].arg \in PowerUpIds
                   /\ s.players[p].powerUps[req[t].arg] > 0
     IN IF usable
        THEN /\ Acquire(t)
             /\ SetLocal(t, [loc[t] EXCEPT !.p = p])
             /\ Goto(t, "commit")
        ELSE /\ Pass(t)
             /\ Return(t, Response(IF p = 0 THEN "NotFound" ELSE "PowerUpUnavailable"))
             /\ UNCHANGED loc
  /\ UNCHANGED <<game_states, game_locks, sessions, now, req, gs, nreq, todo>>

ApplyPowerUp(player, id) ==
  LET used == [player EXCEPT !.powerUps[id] = @ - 1]
  IN CASE id = "future-glimpse" -> [used EXCEPT !.riskScore = Max(0, @ - GLIMPSE_RISK)]
       [] id = "market-freeze" -> [used EXCEPT !.cash = @ + FREEZE_CASH]
       [] OTHER -> used

PowerUpCommit(t) ==
  /\ pc[t] = "commit" /\ req[t].op = "usePowerUp"
  /\ Write(t, [Mine(t) EXCEPT
                 !.players[loc[t].p] = ApplyPowerUp(@, req[t].arg),
                 !.lastUpdate = now])
  /\ Release(t)
  /\ Return(t, Response("ok"))
  /\ UNCHANGED <<game_states, game_locks, now, req, gs, loc, nreq, todo>>

\* select_avatar and select_strategy: the lock taken, the player looked up
SelectEnter(t) ==
  /\ pc[t] = "enter" /\ req[t].op \in {"selectAvatar", "selectStrategy"}
  /\ Acquire(t)
  /\ SetLocal(t, [loc[t] EXCEPT !.p = PlayerById(Mine(t).players, req[t].playerId)])
  /\ Goto(t, "commit")
  /\ UNCHANGED <<game_states, game_locks, sessions, now, req, gs, nreq, todo>>

Select(s, p, op, id, time) ==
  IF p = 0 THEN s
  ELSE IF op = "selectAvatar"
       THEN [s EXCEPT !.players[p].avatarId = id, !.lastUpdate = time]
       ELSE [s EXCEPT !.players[p].strategyId = id, !.lastUpdate = time]

SelectCommit(t) ==
  /\ pc[t] = "commit" /\ req[t].op \in {"selectAvatar", "selectStrategy"}
  /\ Write(t, Select(Mine(t), loc[t].p, req[t].op, req[t].arg, now))
  /\ Release(t)
  /\ Return(t, Response("ok"))
  /\ UNCHANGED <<game_states, game_locks, now, req, gs, loc, nreq, todo>>

----------------------------------------------------------------------------
(* reset_game, get_results *)

\* `with game_locks.get(game_id, threading.Lock()):` entered: the registered
\* lock, or a new lock nobody else has when the game id has none
ResetEnter(t) ==
  /\ pc[t] = "enter" /\ req[t].op = "reset"
  /\ LET l == game_locks[req[t].gameId]
     IN IF l = 0
        THEN /\ lk' = [lk EXCEPT ![t] = -1]
             /\ UNCHANGED lock_owner
        ELSE /\ lock_owner[l] = 0
             /\ lock_owner' = [lock_owner EXCEPT ![l] = t]
             /\ lk' = [lk EXCEPT ![t] = l]
  /\ Goto(t, "commit")
  /\ UNCHANGED <<game_states, game_locks, sessions, now, req, gs, loc, nreq, todo>>

\* `game_states[game_id] = create_new_game(game_id)`, the lock released, and the
\* new dict returned
ResetCommit(t) ==
  /\ pc[t] = "commit" /\ req[t].op = "reset"
  /\ sessions' = Append(sessions, create_new_game(now))
  /\ game_states' = [game_states EXCEPT ![req[t].gameId] = Len(sessions) + 1]
  /\ gs' = [gs EXCEPT ![t] = Len(sessions) + 1]
  /\ Release(t)
  /\ Return(t, Response("ok"))
  /\ UNCHANGED <<game_locks, now, req, loc, nreq, todo>>

\* results for any game that has been started
ResultsReadyOnceStarted(game_state) == game_state.phase # "PRE_MATCH"

\* the negation of `game_state["phase"] != "FINISHED"`
ResultsReady(game_state) == game_state.phase = "FINISHED"

\* `if game_state["phase"] != "FINISHED": return ... 400`, without the lock
GetResultsCheck(t) ==
  /\ pc[t] = "results"
  /\ IF ~ResultsReady(Mine(t))
     THEN Return(t, Response("NotReady"))
     ELSE Goto(t, "res_build")
  /\ UNCHANGED <<game_states, game_locks, sessions, lock_owner, now, req, gs, lk, loc, nreq, todo>>

\* `len(set(h["assetId"] for h in player["holdings"]))`
UniqueAssets(player) ==
  Cardinality({player.holdings[i].assetId : i \in 1..Len(player.holdings)})

\* final_value, 20 times: `final_value += final_value * 0.05` for a DIVERSIFIER
\* with 4 or more assets
FinalValue20(player) ==
  IF player.strategyId = "DIVERSIFIER" /\ UniqueAssets(player) >= 4
  THEN 21 * player.totalValue ELSE 20 * player.totalValue

\* One player's entry of results.  riskAdjustedScore is 2000 times
\* roi - riskScore * 0.5, with roi = (final_value - 10000) / 10000 * 100.
ResultOf(player) ==
  [playerId |-> player.id, playerName |-> player.name,
   finalValue20 |-> FinalValue20(player), riskScore |-> player.riskScore,
   riskAdjustedScore |-> FinalValue20(player) - 20 * STARTING_CASH - 1000 * player.riskScore,
   rank |-> 0]

\* an entry that leaves a placed entry in its place: its key is not greater
KeepsPlaceTiesLast(placed, entry) == placed.riskAdjustedScore > entry.riskAdjustedScore

\* list.sort(key=..., reverse=True) keeps an entry x before an entry y that
\* follows it in the list unless y's key is greater
KeepsPlace(placed, entry) == placed.riskAdjustedScore >= entry.riskAdjustedScore

\* entry put into a sorted list, behind the entries that keep their place
InsertResult(sorted, entry) ==
  LET ahead == Cardinality({i \in 1..Len(sorted) : KeepsPlace(sorted[i], entry)})
  IN SubSeq(sorted, 1, ahead) \o <<entry>> \o SubSeq(sorted, ahead + 1, Len(sorted))

\* `results.sort(key=lambda x: x["riskAdjustedScore"], reverse=True)`
RECURSIVE SortResults(_)
SortResults(results) ==
  IF results = <<>> THEN <<>>
  ELSE InsertResult(SortResults(SubSeq(results, 1, Len(results) - 1)),
                    results[Len(results)])

\* the list get_results returns: an entry per player, sorted, ranked by position
RankedResults(game_state) ==
  LET results == [i \in 1..Len(game_state.players) |-> ResultOf(game_state.players[i])]
      sorted == SortResults(results)
  IN [i \in 1..Len(sorted) |-> [sorted[i] EXCEPT !.rank = i]]

\* the results built and returned, without the lock
GetResultsBuild(t) ==
  /\ pc[t] = "res_build"
  /\ Return(t, [kind |-> "ok", playerId |-> NoId, results |-> RankedResults(Mine(t))])
  /\ UNCHANGED <<game_states, game_locks, sessions, lock_owner, now, req, gs, lk, loc, nreq, todo>>

GetResults(t) == GetResultsCheck(t) \/ GetResultsBuild(t)

----------------------------------------------------------------------------
(* The program *)

Resolve(t) ==
  \/ GetGameStateCheck(t)
  \/ GetGameStateCreate(t)
  \/ GetGameStateLock(t)
  \/ GetGameStateReturn(t)
  \/ LockKeyError(t)

Join(t) == JoinEnter(t) \/ JoinCommit(t)
Start(t, scenarios) == StartEnter(t) \/ StartCommit(t, scenarios)
Poll(t, draws) ==
  \/ GetStateRead(t)
  \/ GetStatePrices(t, draws)
  \/ GetStateEnter(t)
  \/ GetStateCommit(t)
Buy(t) == BuyEnter(t) \/ BuyCommit(t)
Sell(t) == SellEnter(t) \/ SellCommit(t)
PowerUp(t) == PowerUpEnter(t) \/ PowerUpCommit(t)
SelectOption(t) == SelectEnter(t) \/ SelectCommit(t)
Reset(t) == ResetEnter(t) \/ ResetCommit(t)

JoinAs(n) == [Request("join") EXCEPT !.name = n]
Trade(op, id, a, n) == [Request(op) EXCEPT !.playerId = id, !.assetId = a, !.amount = n]
UsePowerUp(id, u) == [Request("usePowerUp") EXCEPT !.playerId = id, !.arg = u]

\* The id join_game gives the first player of a game joined at time 1, and an id
\* no player has.
FirstId == <<0, 1>>
StrayId == <<9, 9>>

\* The player ids a client can hold: those of the players so far, and the stray one.
KnownIds ==
  {sessions[x[1]].players[x[2]].id :
     x \in {y \in (1..Len(sessions)) \X (1..2) : y[2] <= Len(sessions[y[1]].players)}}
  \cup {StrayId}

\* The amounts of a trade: the handlers take any number.
Amounts == {-1, 1, 2}

\* What a client may send once the warm-up is served.
Menu ==
  {JoinAs("Alice"), JoinAs("Bob"), JoinAs("")}
  \cup {Request(op) : op \in {"start", "getState", "reset", "results"}}
  \cup {Trade(op, id, a, n) : op \in {"buy", "sell"}, id \in KnownIds \ {StrayId},
                              a \in {"GOVT", "BTC"}, n \in Amounts}
  \cup {Trade(op, StrayId, "GOVT", 1) : op \in {"buy", "sell"}}
  \cup {Trade(op, id, "DOGE", 1) : op \in {"buy", "sell"}, id \in KnownIds \ {StrayId}}
  \cup {UsePowerUp(id, u) : id \in KnownIds, u \in {"market-freeze", "time-warp"}}
  \cup {[Request("selectStrategy") EXCEPT !.playerId = id, !.arg = "SAFETY_FIRST"] :
          id \in KnownIds}
  \cup {[Request("selectAvatar") EXCEPT !.playerId = id, !.arg = "DEGEN"] : id \in KnownIds}

\* The requests thread 1 serves before the menu opens: none, a player joined, a
\* game started, a game with a holding, a game played to its end.
Polls(n) == [i \in 1..n |-> Request("getState")]
WarmUps ==
  {<<>>,
   <<JoinAs("Alice")>>,
   <<JoinAs("Alice"), Request("start")>>,
   <<JoinAs("Alice"), Request("start"), Trade("buy", FirstId, "GOVT", 1)>>,
   <<JoinAs("Alice"), Request("start")>> \o Polls(GAME_ROUNDS)}

WarmedUp == \A t \in Threads : todo[t] = <<>>

Init ==
  /\ Fresh
  /\ \E w \in WarmUps : todo = [t \in Threads |-> IF t = 1 THEN w ELSE <<>>]

Next ==
  \/ Tick(TOTAL_FRAMES)
  \/ \E t \in Threads :
       \/ BeginNext(t)
       \/ WarmedUp /\ Begin(t, Menu, MaxReqs)
       \/ Resolve(t)
       \/ Join(t)
       \/ Start(t, IF WarmedUp THEN SCENARIOS ELSE {"SIDEWAYS"})
       \/ Poll(t, IF WarmedUp THEN Draws ELSE {Still})
       \/ Buy(t) \/ Sell(t)
       \/ PowerUp(t) \/ SelectOption(t)
       \/ Reset(t)
       \/ GetResults(t)

Spec == Init /\ [][Next]_vars

----------------------------------------------------------------------------
(* Scenarios: each thread serves a fixed sequence of requests, and the game id *)
(* is unknown to the registry when the first ones arrive.                      *)

\* two start calls meet on an unknown game id; one client then polls the game to its end
StartRace == <<<<Request("start"), Request("start")>>,
               <<Request("start")>> \o Polls(GAME_ROUNDS)>>
\* three joins of one name, the first two on an unknown game id
JoinRace == <<<<JoinAs("Alice"), JoinAs("Alice")>>, <<JoinAs("Alice")>>>>
\* a first poll meets a first results call on an unknown game id; the other client
\* then joins, starts, plays to the last round and buys
TradeRace == <<<<Request("results"), JoinAs("Alice"), Request("start")>>
                 \o Polls(GAME_ROUNDS - 1) \o <<Trade("buy", FirstId, "GOVT", 1)>>,
               <<Request("getState")>>>>

\* a first power-up use meets a first results call on an unknown game id; the other
\* client then joins and uses the same power-up
PowerUpRace == <<<<Request("results"), JoinAs("Alice"), UsePowerUp(FirstId, "market-freeze")>>,
                 <<UsePowerUp(FirstId, "market-freeze")>>>>

\* one client joins, starts, buys -1 SPY and 5 GOVT, and polls when the round is over
MixedHoldings == <<<<JoinAs("Alice"), Request("start"), Trade("buy", FirstId, "SPY", -1),
                     Trade("buy", FirstId, "GOVT", 5), Request("getState")>>,
                   <<>>>>

Scenarios == {StartRace, JoinRace, TradeRace, PowerUpRace, MixedHoldings}

InitRace ==
  /\ Fresh
  /\ \E sc \in Scenarios :
       todo = [t \in Threads |-> IF t <= Len(sc) THEN sc[t] ELSE <<>>]

NextRace ==
  \/ Tick(TOTAL_FRAMES)
  \/ \E t \in Threads :
       \/ BeginNext(t)
       \/ Resolve(t)
       \/ Join(t)
       \/ Start(t, SCENARIOS)
       \/ Poll(t, {Still})
       \/ Buy(t)
       \/ PowerUp(t)
       \/ GetResultsCheck(t)

SpecRace == InitRace /\ [][NextRace]_vars

----------------------------------------------------------------------------
(* Ranking: get_results on a finished game, for the players a game can end with *)

PlayerNames == <<"Alice", "Bob", "Carol", "Dave", "Erin">>

\* the holdings a player bought at the initial prices: of three assets, or of all
\* four (a buy of amount 0 adds a holding of quantity 0)
Bought(aids) ==
  LET Unit(a) == [assetId |-> a, quantity |-> IF a = "BTC" THEN 0 ELSE 1,
                  avgBuyPrice |-> INITIAL_ASSETS[a].currentPrice]
  IN IF "BTC" \in aids
     THEN <<Unit("AAPL"), Unit("BTC"), Unit("GOVT"), Unit("SPY")>>
     ELSE <<Unit("AAPL"), Unit("GOVT"), Unit("SPY")>>

\* What a player did before the last price update: nothing, market-freeze used,
\* three assets bought, four assets bought; with or without select_strategy.
Portfolios ==
  {[cash |-> STARTING_CASH, holdings |-> <<>>, freeze |-> 1],
   [cash |-> STARTING_CASH + FREEZE_CASH, holdings |-> <<>>, freeze |-> 0],
   [cash |-> STARTING_CASH - 650, holdings |-> Bought(AssetIds \ {"BTC"}), freeze |-> 1],
   [cash |-> STARTING_CASH - 650, holdings |-> Bought(AssetIds), freeze |-> 1]}

\* a player as join_game made it, after its trades, power-up and strategy choice
PlayerWith(i, portfolio, strategy) ==
  [create_player(<<i - 1, 1>>, PlayerNames[i]) EXCEPT
     !.cash = portfolio.cash, !.holdings = portfolio.holdings,
     !.powerUps["market-freeze"] = portfolio.freeze, !.strategyId = strategy]

\* future-glimpse used after the last price update, or not
AfterGlimpse(player, used) ==
  IF used THEN ApplyPowerUp(player, "future-glimpse") ELSE player

\* the game after n price updates that moved no price
RECURSIVE Updated(_, _)
Updated(game_state, n) ==
  IF n = 0 THEN game_state ELSE Updated(update_prices(game_state, Still), n - 1)

\* A game played to its end at times 1, 36, .. with the given players, then the
\* future-glimpse uses.
FinishedGame(players, glimpses) ==
  LET started == StartGame([create_new_game(1) EXCEPT !.players = players], 1, "SIDEWAYS")
      played == [Updated(started, GAME_ROUNDS) EXCEPT
                   !.currentRound = GAME_ROUNDS, !.timeRemaining = 0,
                   !.roundStartTime = 1 + (GAME_ROUNDS - 1) * TOTAL_FRAMES]
      finished == FinishGame(played)
  IN [finished EXCEPT
        !.players = [i \in 1..Len(players) |-> AfterGlimpse(finished.players[i], glimpses[i])]]

InitRank ==
  /\ game_states = [g \in GameIds |-> 1]
  /\ game_locks = [g \in GameIds |-> 1]
  /\ lock_owner = <<0>>
  /\ now = 1 + GAME_ROUNDS * TOTAL_FRAMES
  /\ pc = [t \in Threads |-> "idle"]
  /\ req = [t \in Threads |-> NoRequest]
  /\ gs = [t \in Threads |-> 0]
  /\ lk = [t \in Threads |-> 0]
  /\ loc = [t \in Threads |-> NoLocals]
  /\ res = [t \in Threads |-> NoResponse]
  /\ nreq = 0
  /\ todo = [t \in Threads |-> IF t = 1 THEN <<Request("results")>> ELSE <<>>]
  /\ \E n \in 1..MaxPlayers :
       \E portfolio \in [1..n -> Portfolios] :
         \E strategy \in [1..n -> {"None", "DIVERSIFIER"}] :
           \E glimpses \in [1..n -> BOOLEAN] :
             sessions = <<FinishedGame([i \in 1..n |-> PlayerWith(i, portfolio[i], strategy[i])],
                                       glimpses)>>

NextRank ==
  \E t \in Threads :
    \/ BeginNext(t)
    \/ GetGameStateCheck(t)
    \/ GetGameStateReturn(t)
    \/ GetResults(t)

SpecRank == InitRank /\ [][NextRank]_vars

----------------------------------------------------------------------------
(* update_prices, statement by statement: what a concurrent call can see and   *)
(* change between the statements of a call.  loc.p is the place of `asset` in  *)
(* the list; loc.cost keeps the price the call computed (the code does not     *)
(* keep it: it reads asset["currentPrice"] again).                             *)

\* the order of game_state["assets"]
AssetOrder == <<"AAPL", "BTC", "GOVT", "SPY">>

\* `if time_remaining < 30: update_prices(game_state)` entered
GetStatePricesBegin(t) ==
  /\ pc[t] = "gs_prices"
  /\ IF loc[t].tr < MARKET_ACTIVE_BELOW
     THEN /\ Goto(t, "up_price")
          /\ SetLocal(t, [loc[t] EXCEPT !.p = 1])
     ELSE /\ Return(t, Response("ok"))
          /\ UNCHANGED loc
  /\ UNCHANGED <<game_states, game_locks, sessions, lock_owner, now, req, gs, lk, nreq, todo>>

\* `asset["currentPrice"] = asset["currentPrice"] * (1 + change)`
UpdatePrice(t, ds) ==
  /\ pc[t] = "up_price"
  /\ \E d \in ds :
       LET a == AssetOrder[loc[t].p]
           price == NewPrice(Mine(t).assets[a], d)
       IN /\ Write(t, [Mine(t) EXCEPT !.assets[a].currentPrice = price])
          /\ SetLocal(t, [loc[t] EXCEPT !.cost = price])
  /\ Goto(t, "up_append")
  /\ UNCHANGED <<game_states, game_locks, lock_owner, now, req, gs, lk, nreq, todo>>

\* `asset["history"].append(asset["currentPrice"])`
UpdateAppend(t) ==
  /\ pc[t] = "up_append"
  /\ LET a == AssetOrder[loc[t].p]
     IN Write(t, [Mine(t) EXCEPT !.assets[a].history = Append(@, Mine(t).assets[a].currentPrice)])
  /\ Goto(t, "up_cap")
  /\ UNCHANGED <<game_states, game_locks, lock_owner, now, req, gs, lk, loc, nreq, todo>>

\* the next asset of the loop, or the loop over the players
NextAsset(t, l) ==
  IF l.p < Len(AssetOrder)
  THEN /\ Goto(t, "up_price")
       /\ SetLocal(t, [l EXCEPT !.p = @ + 1])
  ELSE /\ Goto(t, "up_players")
       /\ SetLocal(t, l)

\* `if len(asset["history"]) > 50:`
UpdateCap(t) ==
  /\ pc[t] = "up_cap"
  /\ IF Len(Mine(t).assets[AssetOrder[loc[t].p]].history) > HISTORY_MAX
     THEN /\ Goto(t, "up_pop")
          /\ UNCHANGED loc
     ELSE NextAsset(t, loc[t])
  /\ UNCHANGED <<game_states, game_locks, sessions, lock_owner, now, req, gs, lk, nreq, todo>>

\* `asset["history"].pop(0)`
UpdatePop(t) ==
  /\ pc[t] = "up_pop"
  /\ LET a == AssetOrder[loc[t].p]
     IN Write(t, [Mine(t) EXCEPT !.assets[a].history = Tail(@)])
  /\ NextAsset(t, loc[t])
  /\ UNCHANGED <<game_states, game_locks, lock_owner, now, req, gs, lk, nreq, todo>>

\* the loop over the players, and `if time_remaining <= 0:`
UpdatePlayers(t) ==
  /\ pc[t] = "up_players"
  /\ Write(t, [Mine(t) EXCEPT
                 !.players = [i \in 1..Len(@) |-> UpdatePlayer(@[i], Mine(t).assets)]])
  /\ IF loc[t].tr <= 0 THEN Goto(t, "gs_enter") ELSE Return(t, Response("ok"))
  /\ UNCHANGED <<game_states, game_locks, lock_owner, now, req, gs, lk, loc, nreq, todo>>

\* the number of price updates a game has had before the polls of SpecHistory
PastUpdates == {HISTORY_MAX - 2, HISTORY_MAX - 1}

\* when the polls of SpecHistory arrive: round 1, started at 1, has 16 s left
PollTime == 20

\* A game in round 1 with a player, polled PastUpdates times since the market
\* opened; every thread has one more poll to serve.
InitHistory ==
  /\ game_states = [g \in GameIds |-> 1]
  /\ game_locks = [g \in GameIds |-> 1]
  /\ lock_owner = <<0>>
  /\ now = PollTime
  /\ pc = [t \in Threads |-> "idle"]
  /\ req = [t \in Threads |-> NoRequest]
  /\ gs = [t \in Threads |-> 0]
  /\ lk = [t \in Threads |-> 0]
  /\ loc = [t \in Threads |-> NoLocals]
  /\ res = [t \in Threads |-> NoResponse]
  /\ nreq = 0
  /\ todo = [t \in Threads |-> <<Request("getState")>>]
  /\ \E n \in PastUpdates :
       sessions = <<[Updated(StartGame([create_new_game(1) EXCEPT
                                          !.players = <<create_player(FirstId, "Alice")>>],
                                       1, "SIDEWAYS"), n)
                       EXCEPT !.timeRemaining = TOTAL_FRAMES - (PollTime - 1)]>>

NextHistory ==
  \E t \in Threads :
    \/ BeginNext(t)
    \/ GetGameStateCheck(t)
    \/ GetGameStateReturn(t)
    \/ GetStateRead(t)
    \/ GetStatePricesBegin(t)
    \/ UpdatePrice(t, {0, 1})
    \/ UpdateAppend(t)
    \/ UpdateCap(t)
    \/ UpdatePop(t)
    \/ UpdatePlayers(t)

SpecHistory == InitHistory /\ [][NextHistory]_vars

----------------------------------------------------------------------------
(* A match that is polled: one client joins, starts and polls, another sends   *)
(* joins, trades and power-up uses.  The server runs every request in a thread of its own and the        *)
(* threads are scheduled fairly; the clock advances while a round is running.  *)

\* what the second client sends: a join, trades and a power-up use, which succeed
\* or fail with the phase they meet; the buy of -1 raises inside the with block
Interleaved ==
  {<<JoinAs("Bob"), Trade("buy", FirstId, "GOVT", 2), Trade("sell", FirstId, "GOVT", 1),
     Trade("buy", FirstId, "GOVT", -1), UsePowerUp(FirstId, "market-freeze")>>}

InitLive ==
  /\ Fresh
  /\ \E script \in Interleaved :
       todo = [t \in Threads |-> IF t = 1 THEN <<JoinAs("Alice"), Request("start")>>
                                 ELSE IF t = 2 THEN script ELSE <<>>]

\* the client that started the game polls it, again and again
PollAgain(t) ==
  /\ pc[t] = "idle"
  /\ todo[t] = <<>>
  /\ req[t].op \in {"start", "getState"}
  /\ Enter(t, Request("getState"))
  /\ UNCHANGED <<nreq, todo>>

\* the steps of thread t
Serve(t) ==
  \/ BeginNext(t)
  \/ PollAgain(t)
  \/ Resolve(t)
  \/ Join(t)
  \/ Start(t, {"SIDEWAYS"})
  \/ Poll(t, {Still})
  \/ Buy(t) \/ Sell(t)
  \/ PowerUp(t)

NextLive ==
  \/ Tick(TOTAL_FRAMES)
  \/ \E t \in Threads : Serve(t)

SpecLive ==
  /\ InitLive
  /\ [][NextLive]_vars
  /\ WF_vars(Tick(TOTAL_FRAMES))
  /\ \A t \in Threads : WF_vars(Serve(t))

----------------------------------------------------------------------------
(* Properties *)

Known == 1..Len(sessions)
Registered(g) == game_states[g]

\* thread t takes a step of its handler
Moves(t) == pc'[t] # pc[t]
\* thread t returns from its handler
Returns(t) == pc[t] # "idle" /\ pc'[t] = "idle"
\* the threads whose last get_state saw the timer of round r of session s run out
SawRoundEnd(s, r) ==
  {t \in Threads : req[t].op = "getState" /\ gs[t] = s /\ loc[t].tr = 0 /\ loc[t].round = r}

\* C1: when two or more get_state calls on a session each saw the timer of the
\* same round r < maxRounds run out, and all have returned (no other thread
\* polling or starting that session), currentRound is r + 1.
C1_AdvanceExactlyOnce ==
  \A s \in Known : \A r \in 1..(GAME_ROUNDS - 1) :
    ( /\ Cardinality(SawRoundEnd(s, r)) >= 2
      /\ \A t \in SawRoundEnd(s, r) : pc[t] = "idle"
      /\ \A t \in Threads \ SawRoundEnd(s, r) :
           ~(gs[t] = s /\ req[t].op \in {"getState", "start"}) )
    => sessions[s].currentRound = r + 1

\* thread t takes a step of get_state's tick: it writes timeRemaining, or it is at
\* the price update
Ticks(t) ==
  \/ pc[t] = "gs_read" /\ pc'[t] = "gs_prices"
  \/ pc[t] = "gs_prices" /\ Moves(t)

\* C2: get_state writes timeRemaining and updates the prices only while no other
\* thread is inside a `with game_locks[game_id]:` block on the same game state.
C2_TickUnderLock ==
  [][\A t \in Threads :
       Ticks(t) => \A u \in Threads \ {t} : ~(lk[u] # 0 /\ gs[u] = gs[t])]_vars

\* no reset_game has run: every game state has its lock, or its maker is about
\* to register it
NoResetYet ==
  Len(sessions) = Len(lock_owner) + Cardinality({t \in Threads : pc[t] = "gg_lock"})

\* C3: without a reset, a game id has one game state and one lock for all the
\* threads, and a player that join_game returned is in the registered game state.
C3_OneSessionPerGameId ==
  NoResetYet =>
    /\ Len(sessions) <= 1
    /\ Len(lock_owner) <= 1
    /\ \A t \in Threads :
         /\ gs[t] # 0 => gs[t] = Registered(req[t].gameId)
         /\ (req[t].op = "join" /\ res[t].kind = "ok")
            => PlayerById(sessions[Registered(req[t].gameId)].players, res[t].playerId) # 0

PhaseRank(phase) ==
  CASE phase = "PRE_MATCH" -> 0 [] phase = "PLAYING" -> 1 [] phase = "FINISHED" -> 2

\* C4: the phase of a game state never moves back: PRE_MATCH, PLAYING, FINISHED.
C4_PhaseMonotone ==
  [][\A s \in Known :
       PhaseRank(sessions'[s].phase) >= PhaseRank(sessions[s].phase)]_vars

\* C5: a start_game call changes a game state only when it finds it in PRE_MATCH,
\* and then leaves it PLAYING in round 1 with the full time, a start time and a
\* scenario of SCENARIOS; on a game state in PLAYING or FINISHED it writes nothing.
C5_StartOnlyFromPreMatch ==
  [][\A t \in Threads :
       (req[t].op = "start" /\ Moves(t) /\ gs[t] # 0)
       => IF pc[t] = "commit" /\ sessions[gs[t]].phase = "PRE_MATCH"
          THEN /\ sessions'[gs[t]].phase = "PLAYING"
               /\ sessions'[gs[t]].currentRound = 1
               /\ sessions'[gs[t]].timeRemaining = TOTAL_FRAMES
               /\ sessions'[gs[t]].roundStartTime # NoTime
               /\ sessions'[gs[t]].activeScenario \in SCENARIOS
          ELSE sessions' = sessions]_vars

\* C6: a game state becomes FINISHED only from round maxRounds and only when the
\* timer of that round has run out; a round advance restarts the timer and keeps
\* the phase; currentRound stays within 0..maxRounds.
C6_FinishAfterLastRound ==
  [][\A s \in Known :
       /\ sessions'[s].currentRound \in 0..sessions'[s].maxRounds
       /\ (sessions[s].phase # "FINISHED" /\ sessions'[s].phase = "FINISHED")
          => /\ sessions[s].currentRound = sessions[s].maxRounds
             /\ sessions[s].roundStartTime # NoTime
             /\ now - sessions[s].roundStartTime >= TOTAL_FRAMES
             /\ sessions'[s].roundStartTime = NoTime
       /\ (sessions[s].phase = "PLAYING"
           /\ sessions'[s].currentRound = sessions[s].currentRound + 1)
          => /\ sessions'[s].phase = "PLAYING"
             /\ sessions'[s].roundStartTime = now
             /\ sessions'[s].timeRemaining = TOTAL_FRAMES]_vars

\* C7: reset_game registers a fresh game state, and a buy, sell or power-up that
\* returns success has acted on the game state registered when it returns, never
\* on one a reset has discarded.
C7_NoSuccessOnDiscarded ==
  [][\A t \in Threads :
       /\ (req[t].op = "reset" /\ Returns(t))
          => sessions'[Registered(req[t].gameId)'] = create_new_game(now)
       /\ (req[t].op \in {"buy", "sell", "usePowerUp"} /\ Returns(t)
           /\ res'[t].kind = "ok")
          => gs[t] = Registered(req[t].gameId)]_vars

\* C8: no two players of a game state have the same name or the same id.
C8_NamesAndIdsUnique ==
  \A s \in Known :
    \A i, j \in 1..Len(sessions[s].players) :
      i # j => /\ sessions[s].players[i].name # sessions[s].players[j].name
               /\ sessions[s].players[i].id # sessions[s].players[j].id

LogLength(s) ==
  LET L(p) == Len(p.transactionLog) IN SumOver(s.players, L, 1)

\* C9: a buy or sell returns success only on a game state in PLAYING, and no
\* transaction record is added to a game state that is not in PLAYING.
C9_TradesOnlyWhilePlaying ==
  [][/\ \A t \in Threads :
          (req[t].op \in {"buy", "sell"} /\ Returns(t) /\ res'[t].kind = "ok")
          => sessions[gs[t]].phase = "PLAYING"
     /\ \A s \in Known :
          LogLength(sessions'[s]) # LogLength(sessions[s])
          => sessions[s].phase = "PLAYING"]_vars

\* C10: a buy of a known asset by a known player in PLAYING whose cost exceeds the
\* player's cash returns InsufficientFunds, a sell of more than the player holds
\* (or of an asset it does not hold) returns InsufficientHoldings, and neither
\* writes anything: no step of a buy or sell before its writes changes a game state.
C10_RejectedTradeChangesNothing ==
  [][\A t \in Threads :
       /\ (req[t].op \in {"buy", "sell"} /\ Moves(t) /\ pc[t] # "commit")
          => \A s \in Known : sessions'[s] = sessions[s]
       /\ (pc[t] = "enter" /\ Moves(t) /\ req[t].op \in {"buy", "sell"}
           /\ ValidTrade(sessions[gs[t]], req[t]))
          => LET s == sessions[gs[t]]
                 player == s.players[PlayerById(s.players, req[t].playerId)]
                 h == HoldingOf(player.holdings, req[t].assetId)
                 short == IF req[t].op = "buy"
                          THEN req[t].amount * s.assets[req[t].assetId].currentPrice
                               > player.cash
                          ELSE h = 0 \/ player.holdings[h].quantity < req[t].amount
             IN short => /\ pc'[t] = "idle"
                         /\ res'[t].kind = IF req[t].op = "buy" THEN "InsufficientFunds"
                                           ELSE "InsufficientHoldings"
                         /\ sessions' = sessions]_vars

\* C10 happens: a buy was refused for its cost and a sell for its quantity
C10_Witness ==
  \E t, u \in Threads :
    /\ pc[t] = "idle" /\ req[t].op = "buy" /\ res[t].kind = "InsufficientFunds"
    /\ pc[u] = "idle" /\ req[u].op = "sell" /\ res[u].kind = "InsufficientHoldings"

\* C11: a power-up's usesLeft only ever goes from 1 to 0, in a step that applies
\* its effect once (market-freeze: cash + 1000, future-glimpse: riskScore - 20
\* floored at 0), and never goes below 0; a use_powerup call that finds a known
\* player with usesLeft <= 0 returns PowerUpUnavailable and writes nothing.
C11_PowerUpAtMostOnce ==
  [][/\ \A s \in Known : \A i \in 1..Len(sessions[s].players) : \A u \in PowerUpIds :
          LET before == sessions[s].players[i]
              after == sessions'[s].players[i]
          IN /\ after.powerUps[u] >= 0
             /\ after.powerUps[u] # before.powerUps[u]
                => /\ before.powerUps[u] = 1 /\ after.powerUps[u] = 0
                   /\ after = ApplyPowerUp(before, u)
     /\ \A t \in Threads :
          (pc[t] = "enter" /\ Moves(t) /\ req[t].op = "usePowerUp"
           /\ req[t].arg \in PowerUpIds
           /\ PlayerById(sessions[gs[t]].players, req[t].playerId) # 0
           /\ sessions[gs[t]].players[PlayerById(sessions[gs[t]].players,
                                                 req[t].playerId)].powerUps[req[t].arg] <= 0)
          => /\ res'[t].kind = "PowerUpUnavailable"
             /\ sessions' = sessions]_vars

\* C12: get_results goes on to build results exactly when it finds the phase
\* FINISHED and returns NotReady otherwise (also in the last round with its timer
\* run out); the results it returns have one entry per player of the game state;
\* no step of get_results changes a game state.
C12_ResultsOnlyWhenFinished ==
  [][\A t \in Threads :
       /\ (pc[t] = "results" /\ Moves(t))
          => IF sessions[gs[t]].phase = "FINISHED"
             THEN pc'[t] = "res_build"
             ELSE pc'[t] = "idle" /\ res'[t].kind = "NotReady" /\ res'[t].results = <<>>
       /\ (pc[t] = "res_build" /\ Moves(t))
          => LET players == sessions[gs[t]].players
                 results == res'[t].results
             IN /\ res'[t].kind = "ok"
                /\ Len(results) = Len(players)
                /\ \A i \in 1..Len(players) :
                     Cardinality({j \in 1..Len(results) :
                                    results[j].playerId = players[i].id
                                    /\ results[j].playerName = players[i].name}) >= 1
       /\ (req[t].op = "results" /\ Moves(t))
          => \A s \in Known : sessions'[s] = sessions[s]]_vars

\* C12 happens: a results call was refused in the last round after its timer ran
\* out, and the game state still is as the call found it
C12_Witness ==
  \E t \in Threads :
    /\ pc[t] = "idle" /\ req[t].op = "results" /\ res[t].kind = "NotReady"
    /\ sessions[gs[t]].phase = "PLAYING"
    /\ sessions[gs[t]].currentRound = sessions[gs[t]].maxRounds
    /\ now - sessions[gs[t]].roundStartTime >= TOTAL_FRAMES

\* the place of the player with this id in the order of joining
JoinOrder(s, id) == PlayerById(sessions[s].players, id)

\* C13: the results returned for a finished game are in descending order of
\* riskAdjustedScore = roi - riskScore * 0.5 (here 2000 times that), where the
\* final value carries the 5% bonus exactly for a DIVERSIFIER with at least 4
\* distinct assets; entries of equal score are in the order of joining; the rank
\* of the entry at position i is i.
C13_RankedByScore ==
  \A t \in Threads :
    (pc[t] = "idle" /\ req[t].op = "results" /\ res[t].kind = "ok")
    => LET results == res[t].results
           players == sessions[gs[t]].players
       IN /\ \A i \in 1..Len(results) :
               LET player == players[JoinOrder(gs[t], results[i].playerId)]
                   bonus == player.strategyId = "DIVERSIFIER"
                            /\ Cardinality({h.assetId : h \in {player.holdings[k] :
                                              k \in 1..Len(player.holdings)}}) >= 4
               IN /\ results[i].rank = i
                  /\ results[i].riskAdjustedScore =
                       (IF bonus THEN 21 ELSE 20) * player.totalValue
                       - 20 * STARTING_CASH - 1000 * player.riskScore
          /\ \A i, j \in 1..Len(results) :
               i < j => /\ results[i].riskAdjustedScore >= results[j].riskAdjustedScore
                        /\ results[i].riskAdjustedScore = results[j].riskAdjustedScore
                           => JoinOrder(gs[t], results[i].playerId)
                              < JoinOrder(gs[t], results[j].playerId)

\* C13 happens: three players were ranked, two of them with equal scores, one with
\* the bonus, and the last to join came first
C13_Witness ==
  \E t \in Threads :
    /\ pc[t] = "idle" /\ req[t].op = "results" /\ res[t].kind = "ok"
    /\ Len(res[t].results) = 3
    /\ res[t].results[1].playerId = sessions[gs[t]].players[3].id
    /\ res[t].results[2].riskAdjustedScore = res[t].results[3].riskAdjustedScore
    /\ \E i \in 1..3 : res[t].results[i].finalValue20
                       = 21 * sessions[gs[t]].players[
                                JoinOrder(gs[t], res[t].results[i].playerId)].totalValue

\* the quantity a player holds of an asset
Held(player, aid) ==
  LET h == HoldingOf(player.holdings, aid)
  IN IF h = 0 THEN 0 ELSE player.holdings[h].quantity

\* a player's cash and what it holds of an asset at a price
Worth(player, aid, price) == player.cash + Held(player, aid) * price

\* C14: in every game state in PLAYING, for every player, asset and amount: a buy
\* the handler accepts and completes leaves cash + quantity * price unchanged, and
\* a sell of the same amount at once after it is accepted and gives back the cash
\* and the quantity held before the buy, with no holding left if there was none;
\* a sell the handler accepts leaves cash + quantity * price unchanged.
C14_RoundTrip ==
  \A s \in Known : sessions[s].phase = "PLAYING" =>
    \A i \in 1..Len(sessions[s].players) : \A aid \in AssetIds : \A amount \in Amounts :
      LET game_state == sessions[s]
          player == game_state.players[i]
          price == game_state.assets[aid].currentPrice
          bought == AfterBuy(game_state, player, aid, amount, amount * price)
          held == HoldingOf(bought.holdings, aid)
          sold == AfterSell(game_state, bought, aid, amount, held,
                            bought.holdings[held].quantity)
          h == HoldingOf(player.holdings, aid)
          only_sold == AfterSell(game_state, player, aid, amount, h,
                                 player.holdings[h].quantity)
      IN /\ (CanAfford(player, amount * price) /\ ~BuyRaises(player, aid, amount))
            => /\ Worth(bought, aid, price) = Worth(player, aid, price)
               /\ CanSell(bought, aid, amount)
               /\ sold.cash = player.cash
               /\ Held(sold, aid) = Held(player, aid)
               /\ h = 0 => HoldingOf(sold.holdings, aid) = 0
         /\ CanSell(player, aid, amount)
            => Worth(only_sold, aid, price) = Worth(player, aid, price)

\* thread t updates the prices of its game state in this step
UpdatesPrices(t) == pc[t] = "gs_prices" /\ Moves(t) /\ loc[t].tr < MARKET_ACTIVE_BELOW

\* C15: every player's riskScore is within 0..100 after every step, and a price
\* update leaves a player without holdings, or with holdings worth 0 in all, with
\* the riskScore 0.
C15_RiskInRange ==
  [][\A s \in Known : \A i \in 1..Len(sessions'[s].players) :
       LET player == sessions'[s].players[i]
       IN /\ player.riskScore \in 0..100
          /\ ((\E t \in Threads : UpdatesPrices(t) /\ gs[t] = s)
              /\ HoldingsValue(player, sessions'[s].assets) = 0)
             => player.riskScore = 0]_vars

\* no handler is at work on game state s after this step
AtRest(s) == \A t \in Threads : pc'[t] = "idle" \/ gs'[t] # s

\* C16: whenever no handler is at work on a game state, every player's totalValue
\* is its cash plus the value of its holdings at the current prices (so buy, sell
\* and use_powerup leave it so), and every price update makes it so for every player.
C16_TotalValueDerived ==
  [][\A s \in Known :
       (AtRest(s) \/ \E t \in Threads : UpdatesPrices(t) /\ gs[t] = s)
       => \A i \in 1..Len(sessions'[s].players) :
            LET player == sessions'[s].players[i]
            IN player.totalValue = player.cash + HoldingsValue(player, sessions'[s].assets)]_vars

\* C17: in every game state every player has cash >= 0, only holdings of a
\* quantity > 0, and at most one holding of an asset.
C17_BalancesInRange ==
  \A s \in Known : \A i \in 1..Len(sessions[s].players) :
    LET player == sessions[s].players[i]
    IN /\ player.cash >= 0
       /\ \A h \in 1..Len(player.holdings) : player.holdings[h].quantity > 0
       /\ \A h, k \in 1..Len(player.holdings) :
            h # k => player.holdings[h].assetId # player.holdings[k].assetId

\* the history of asset a of the game state of thread t
HistoryOf(t, a) == sessions[gs[t]].assets[a].history

\* C18: a get_state call never returns a game state with more than 50 prices in
\* an asset's history; the price a call computed for an asset is the one it
\* appends, as the last entry; a call evicts an entry only from a history of more
\* than 50 prices, and then the oldest.
C18_HistoryBounded ==
  [][\A t \in Threads : \A a \in AssetIds :
       /\ (req[t].op = "getState" /\ Returns(t))
          => Len(HistoryOf(t, a)') <= HISTORY_MAX
       /\ (pc[t] = "up_append" /\ Moves(t) /\ a = AssetOrder[loc[t].p])
          => HistoryOf(t, a)' = Append(HistoryOf(t, a), loc[t].cost)
       /\ (pc[t] = "up_pop" /\ Moves(t) /\ a = AssetOrder[loc[t].p])
          => /\ Len(HistoryOf(t, a)) > HISTORY_MAX
             /\ HistoryOf(t, a)' = Tail(HistoryOf(t, a))]_vars

\* C19: a get_state call that finds the game in PLAYING with a start time updates
\* the prices once when the time remaining it computes is below 30 (every history
\* gets one price) and not at all otherwise; a call that finds another phase
\* returns without a write; and no step changes an asset of a game state that is
\* in PRE_MATCH or FINISHED.
C19_OnePriceStepPerPoll ==
  [][/\ \A t \in Threads :
          /\ (pc[t] = "gs_read" /\ Moves(t))
             => /\ sessions'[gs[t]].assets = sessions[gs[t]].assets
                /\ pc'[t] = "gs_prices" <=> /\ sessions[gs[t]].phase = "PLAYING"
                                            /\ sessions[gs[t]].roundStartTime # NoTime
          /\ (pc[t] = "gs_prices" /\ Moves(t))
             => IF loc[t].tr < MARKET_ACTIVE_BELOW
                THEN \E draw \in Draws :
                       sessions'[gs[t]].assets = update_prices(sessions[gs[t]], draw).assets
                ELSE sessions'[gs[t]].assets = sessions[gs[t]].assets
          /\ (pc[t] \in {"gs_enter", "gs_commit"} /\ Moves(t))
             => sessions'[gs[t]].assets = sessions[gs[t]].assets
     /\ \A s \in Known :
          sessions[s].phase \in {"PRE_MATCH", "FINISHED"}
          => sessions'[s].assets = sessions[s].assets]_vars

\* a lock is held only by a thread inside its with block, and an idle thread
\* holds none
LocksReleased ==
  /\ \A t \in Threads : pc[t] \notin {"commit", "gs_commit"} => lk[t] = 0
  /\ \A l \in 1..Len(lock_owner) : lock_owner[l] # 0 => lk[lock_owner[l]] = l

\* the registered game state of the default game is in this phase
InPhase(phase) ==
  /\ Registered("default") # 0
  /\ sessions[Registered("default")].phase = phase

\* C20: a lock is held only inside a with block and released on every return;
\* every request returns; and a started game that keeps being polled while the
\* clock advances reaches FINISHED, whatever joins, trades and power-up uses
\* come between.
C20_NoBlockingAndTermination ==
  /\ []LocksReleased
  /\ \A t \in Threads : (pc[t] # "idle") ~> (pc[t] = "idle")
  /\ InPhase("PLAYING") ~> InPhase("FINISHED")

\* C21: a game id with a game state in the registry has a lock in the registry
\* (once the thread that made the game state is past registering the lock), no
\* request fails with KeyError for the lack of a lock, and reset_game replaces the
\* game state while it holds the registered lock of the game id.
C21_LockForEveryGameState ==
  /\ \A g \in GameIds :
       (Registered(g) # 0 /\ \A t \in Threads : pc[t] # "gg_lock") => game_locks[g] # 0
  /\ \A t \in Threads :
       /\ res[t].kind # "KeyError"
       /\ (pc[t] = "commit" /\ req[t].op = "reset")
          => lk[t] > 0 /\ lk[t] = game_locks[req[t].gameId]

=============================================================================
